---- MODULE Spec2Model ----
(***************************************************************************)
(* URL shortener (FastAPI + SQLAlchemy on PostgreSQL).                     *)
(*                                                                         *)
(* The store is the pair of tables `users` and `urls`.  Every HTTP request *)
(* runs in its own session; a request is a process whose steps are the SQL *)
(* statements its handler issues (SELECT ... .first(), INSERT/UPDATE/DELETE *)
(* at commit).  Requests may be served by several worker processes against *)
(* the one store, so statements of different requests interleave; each     *)
(* statement sees the rows committed so far (READ COMMITTED).              *)
(***************************************************************************)
EXTENDS Integers, FiniteSets, Sequences, TLC

VARIABLES users, urls, url_seq, req, resp, now, issued, hits

vars == <<users, urls, url_seq, req, resp, now, issued, hits>>

-----------------------------------------------------------------------------
(* Bounds of the model *)

NReq == 2            \* request slots that can be in flight together
MaxUrls == 2         \* create requests accepted in one behaviour
MaxRedirects == 2    \* redirect requests accepted per URL in one behaviour
MaxTime == 4         \* the clock stops here
MaxTokens == 2       \* logins accepted in one behaviour

\* Token lifetime in clock ticks (auth.py reads it from the environment).
ACCESS_TOKEN_EXPIRE_MINUTES == 2

Slots == 1..NReq
UrlIds == 1..MaxUrls

\* Request inputs.  A username is any string of 3..50 characters, so it may
\* have the shape of an e-mail address; an email must be an address.
Emails == {"a@x", "b@x"}
Usernames == {"bob", "a@x", "b@x"}
Passwords == {"pw1", "pw2"}
Keys == {"k1", "k2"}          \* values secrets.token_urlsafe(6) can return
Suffixes == {"s1", "s2"}      \* values secrets.token_urlsafe(8) can return
Targets == {"http://t"}

SECRET_KEY == "SECRET_KEY"

-----------------------------------------------------------------------------
(* Rows, tokens and request records *)

NoUser == [id |-> 0, username |-> "", email |-> "", hashed_password |-> "",
           is_active |-> FALSE]

NoUrl == [id |-> 0, key |-> "", secret_key |-> "", target_url |-> "",
          is_active |-> FALSE, clicks |-> 0, owner_id |-> 0]

\* No Authorization header.
NoToken == [sub |-> "", exp |-> 0, sig |-> ""]

IdleReq == [op |-> "idle", pc |-> "idle", username |-> "", email |-> "",
            password |-> "", token |-> NoToken, key |-> "", secret_key |-> "",
            target_url |-> "", user |-> 0, db_url |-> NoUrl, status |-> 0,
            detail |-> "", body |-> NoUrl, body_user |-> NoUser,
            access_token |-> NoToken]

\* The response of request r: the handler returns or raises.
Respond(r, status, detail) ==
    [r EXCEPT !.pc = "done", !.status = status, !.detail = detail]

\* Request i ends in this step with response r, and its slot is free again.
Reply(i, r) ==
    /\ resp' = r
    /\ req' = [req EXCEPT ![i] = IdleReq]

\* Request i goes on to its next statement as r; nothing is sent.
Continue(i, r) ==
    /\ req' = [req EXCEPT ![i] = r]
    /\ resp' = IdleReq

\* Query(...).first(): the row, or None.
First(rows, none) == IF rows = {} THEN none ELSE CHOOSE x \in rows : TRUE

-----------------------------------------------------------------------------
(* security.py *)

get_password_hash(password) == "bcrypt$" \o password

verify_password(plain_password, hashed_password) ==
    get_password_hash(plain_password) = hashed_password

-----------------------------------------------------------------------------
(* crud.py: users *)

\* crud.get_user_by_username filters on the email column.
get_user_by_username(email) ==
    First({u \in users : u.email = email}, NoUser)

\* The existence check at the top of crud.create_user.
existing_email(email) == First({u \in users : u.email = email}, NoUser)

UsersUniqueNone(username, email) == FALSE

\* The unique indexes of the users table: would the INSERT be rejected?
UsersUniqueViolation(username, email) ==
    \E u \in users : u.username = username \/ u.email = email

-----------------------------------------------------------------------------
(* auth.py *)

create_access_token(sub, expires_delta) ==
    [sub |-> sub, exp |-> now + expires_delta, sig |-> SECRET_KEY]

authenticate_user_any_flag(username, password) ==
    LET user == get_user_by_username(username) IN
    IF user = NoUser THEN NoUser
    ELSE IF ~verify_password(password, user.hashed_password) THEN NoUser
    ELSE user

authenticate_user(username, password) ==
    LET user == get_user_by_username(username) IN
    IF user = NoUser THEN NoUser
    ELSE IF ~verify_password(password, user.hashed_password) THEN NoUser
    ELSE IF ~user.is_active THEN NoUser
    ELSE user

jwt_decode_no_exp(token) == token.sig = SECRET_KEY

jwt_decode_unverified(token) == ~(token.exp < now)

\* jose.jwt.decode: the signature verifies and exp is not in the past.
jwt_decode(token) == token.sig = SECRET_KEY /\ ~(token.exp < now)

\* The outcome of the dependency: the user, or the error it raises.
get_current_user(token) ==
    IF token = NoToken
    THEN [status |-> 401, detail |-> "Not authenticated", user |-> NoUser]
    ELSE IF ~jwt_decode(token) \/ token.sub = ""
    THEN [status |-> 401, detail |-> "Could not validate credentials",
          user |-> NoUser]
    ELSE LET user == get_user_by_username(token.sub) IN
         IF user = NoUser
         THEN [status |-> 401, detail |-> "Could not validate credentials",
               user |-> NoUser]
         ELSE [status |-> 200, detail |-> "", user |-> user]

get_current_active_user_any_flag(token) == get_current_user(token)

get_current_active_user(token) ==
    LET cur == get_current_user(token) IN
    IF cur.status # 200 THEN cur
    ELSE IF ~cur.user.is_active
    THEN [status |-> 400, detail |-> "Inactive user", user |-> NoUser]
    ELSE cur

\* Tokens a client can present: the ones login handed out, or none.
Presentable == {t.token : t \in issued} \cup {NoToken}

-----------------------------------------------------------------------------
(* routers.py: POST /register *)

\* Request arrives; first statement: crud.get_user_by_username(email=user.username)
RegisterCheckUsername(i, username, email, password) ==
    /\ req[i].pc = "idle"
    /\ LET r == [IdleReq EXCEPT !.op = "register", !.username = username,
                                !.email = email, !.password = password]
           db_user == get_user_by_username(username)
       IN IF db_user # NoUser
          THEN Reply(i, Respond(r, 400, "Username already registered"))
          ELSE Continue(i, [r EXCEPT !.pc = "create_user"])
    /\ UNCHANGED <<users, urls, url_seq, now, issued, hits>>

\* crud.create_user: the existing_email query
RegisterCheckEmail(i) ==
    /\ req[i].op = "register" /\ req[i].pc = "create_user"
    /\ IF existing_email(req[i].email) # NoUser
       THEN Reply(i, Respond(req[i], 400, "Email already registered"))
       ELSE Continue(i, [req[i] EXCEPT !.pc = "commit"])
    /\ UNCHANGED <<users, urls, url_seq, now, issued, hits>>

\* crud.create_user: db.add; db.commit; db.refresh.  An IntegrityError is not
\* a ValueError, so it leaves the handler as an internal error.
RegisterCommit(i) ==
    /\ req[i].op = "register" /\ req[i].pc = "commit"
    /\ IF UsersUniqueViolation(req[i].username, req[i].email)
       THEN /\ Reply(i, Respond(req[i], 500, "Internal Server Error"))
            /\ UNCHANGED users
       ELSE LET db_user == [id |-> Cardinality(users) + 1,
                            username |-> req[i].username,
                            email |-> req[i].email,
                            hashed_password |->
                                get_password_hash(req[i].password),
                            is_active |-> TRUE]
            IN /\ users' = users \cup {db_user}
               /\ Reply(i, [Respond(req[i], 201, "") EXCEPT
                               !.body_user = db_user])
    /\ UNCHANGED <<urls, url_seq, now, issued, hits>>

-----------------------------------------------------------------------------
(* routers.py: POST /token, GET /users/me *)

Login(i, username, password) ==
    /\ req[i].pc = "idle"
    /\ Cardinality(issued) < MaxTokens
    /\ LET r == [IdleReq EXCEPT !.op = "login", !.username = username,
                                !.password = password]
           user == authenticate_user(username, password)
           access_token == create_access_token(user.email,
                                               ACCESS_TOKEN_EXPIRE_MINUTES)
       IN IF user = NoUser
          THEN /\ Reply(i, Respond(r, 401, "Incorrect username or password"))
               /\ UNCHANGED issued
          ELSE /\ Reply(i, [Respond(r, 200, "") EXCEPT
                               !.access_token = access_token])
               /\ issued' = issued \cup
                              {[token |-> access_token, uid |-> user.id]}
    /\ UNCHANGED <<users, urls, url_seq, now, hits>>

ReadUsersMe(i, token) ==
    /\ req[i].pc = "idle"
    /\ LET r == [IdleReq EXCEPT !.op = "me", !.token = token]
           cur == get_current_active_user(token)
       IN IF cur.status # 200
          THEN Reply(i, Respond(r, cur.status, cur.detail))
          ELSE Reply(i, [Respond(r, 200, "") EXCEPT
                            !.user = cur.user.id, !.body_user = cur.user])
    /\ UNCHANGED <<users, urls, url_seq, now, issued, hits>>

\* Wall-clock time passes.
Tick ==
    /\ now < MaxTime
    /\ now' = now + 1
    /\ resp' = IdleReq
    /\ UNCHANGED <<users, urls, url_seq, req, issued, hits>>

-----------------------------------------------------------------------------
(* crud.py: urls *)

get_db_url_by_key_active_only(key) ==
    First({u \in urls : u.key = key /\ u.is_active}, NoUrl)

get_db_url_by_key(key) == First({u \in urls : u.key = key}, NoUrl)

get_db_url_by_secret_key_active_only(secret_key) ==
    First({u \in urls : u.secret_key = secret_key /\ u.is_active}, NoUrl)

get_db_url_by_secret_key(secret_key) ==
    First({u \in urls : u.secret_key = secret_key}, NoUrl)

MakeSecretKeySuffixOnly(key, suffix) == suffix

\* f"{key}_{generate_random_key(8)}"
MakeSecretKey(key, suffix) == key \o "_" \o suffix

SecretKeys == {MakeSecretKey(k, s) : k \in Keys, s \in Suffixes}

UrlsUniqueNone(key, secret_key) == FALSE

\* The unique indexes of the urls table: would the INSERT be rejected?
UrlsUniqueViolation(key, secret_key) ==
    \E u \in urls : u.key = key \/ u.secret_key = secret_key

OwnerMatchesAnyone(db_url, owner_id) == TRUE

OwnerMatchesOrAnonymous(db_url, owner_id) ==
    db_url.owner_id = owner_id \/ db_url.owner_id = 0

\* db_url.owner_id == owner_id in get_and_deactivate_url, get_and_delete_url
OwnerMatches(db_url, owner_id) == db_url.owner_id = owner_id

\* The row an UPDATE ... WHERE id = :id touches, if it is still there.
RowById(id) == First({u \in urls : u.id = id}, NoUrl)

\* Create requests past the gate that have not committed yet.
CreatesInFlight == Cardinality({j \in Slots : req[j].op = "create"})

\* Redirects that have read row id and have not written it yet.
RedirectsInFlight(id) ==
    Cardinality({j \in Slots : /\ req[j].op = "redirect"
                               /\ req[j].pc = "update_clicks"
                               /\ req[j].db_url.id = id})

-----------------------------------------------------------------------------
(* routers.py: POST /url  (crud.create_db_url) *)

\* Request arrives; Depends(auth.get_current_active_user).  The gate reads
\* only the users table, whose rows no request changes or deletes, so the
\* user it resolves is the same wherever the read falls before the handler's
\* first statement: the gate is taken together with the request's arrival.
CreateUrlAuth(i, token, target_url) ==
    /\ req[i].pc = "idle"
    /\ url_seq + CreatesInFlight <= MaxUrls
    /\ LET r == [IdleReq EXCEPT !.op = "create", !.token = token,
                                !.target_url = target_url]
           cur == get_current_active_user(token)
       IN IF cur.status # 200
          THEN Reply(i, Respond(r, cur.status, cur.detail))
          ELSE Continue(i, [r EXCEPT !.pc = "generate_key",
                                     !.user = cur.user.id])
    /\ UNCHANGED <<users, urls, url_seq, now, issued, hits>>

\* One turn of the first while loop: key is what generate_random_key() gave.
CreateGenerateKey(i, key) ==
    /\ req[i].op = "create" /\ req[i].pc = "generate_key"
    /\ IF get_db_url_by_key(key) # NoUrl
       THEN Continue(i, req[i])
       ELSE Continue(i, [req[i] EXCEPT !.pc = "generate_secret",
                                       !.key = key])
    /\ UNCHANGED <<users, urls, url_seq, now, issued, hits>>

\* One turn of the second while loop.
CreateGenerateSecret(i, suffix) ==
    /\ req[i].op = "create" /\ req[i].pc = "generate_secret"
    /\ LET secret_key == MakeSecretKey(req[i].key, suffix) IN
       IF get_db_url_by_secret_key(secret_key) # NoUrl
       THEN Continue(i, req[i])
       ELSE Continue(i, [req[i] EXCEPT !.pc = "commit",
                                       !.secret_key = secret_key])
    /\ UNCHANGED <<users, urls, url_seq, now, issued, hits>>

CreateCommitUpsert(i) ==
    /\ req[i].op = "create" /\ req[i].pc = "commit"
    /\ LET old == First({u \in urls : u.target_url = req[i].target_url},
                        NoUrl)
           db_url == [id |-> IF old = NoUrl THEN url_seq ELSE old.id,
                      key |-> req[i].key,
                      secret_key |-> req[i].secret_key,
                      target_url |-> req[i].target_url,
                      is_active |-> TRUE, clicks |-> 0,
                      owner_id |-> req[i].user]
       IN /\ urls' = (urls \ {old}) \cup {db_url}
          /\ url_seq' = url_seq + 1
          /\ Reply(i, [Respond(req[i], 201, "") EXCEPT !.body = db_url])
    /\ UNCHANGED <<users, now, issued, hits>>

\* db.add(db_url); db.commit(); db.refresh(db_url)
CreateCommit(i) ==
    /\ req[i].op = "create" /\ req[i].pc = "commit"
    /\ IF UrlsUniqueViolation(req[i].key, req[i].secret_key)
       THEN /\ Reply(i, Respond(req[i], 500, "Internal Server Error"))
            /\ UNCHANGED <<urls, url_seq>>
       ELSE LET db_url == [id |-> url_seq, key |-> req[i].key,
                           secret_key |-> req[i].secret_key,
                           target_url |-> req[i].target_url,
                           is_active |-> TRUE, clicks |-> 0,
                           owner_id |-> req[i].user]
            IN /\ urls' = urls \cup {db_url}
               /\ url_seq' = url_seq + 1
               /\ Reply(i, [Respond(req[i], 201, "") EXCEPT !.body = db_url])
    /\ UNCHANGED <<users, now, issued, hits>>

-----------------------------------------------------------------------------
(* routers.py: GET /{short_key}  (crud.get_and_increment_clicks) *)

\* Request arrives; get_db_url_by_key and the test `db_url and db_url.is_active`
Redirect(i, short_key) ==
    /\ req[i].pc = "idle"
    /\ LET r == [IdleReq EXCEPT !.op = "redirect", !.key = short_key]
           db_url == get_db_url_by_key(short_key)
       IN IF db_url # NoUrl /\ db_url.is_active
          THEN /\ hits[db_url.id] + RedirectsInFlight(db_url.id) < MaxRedirects
               /\ Continue(i, [r EXCEPT !.pc = "update_clicks",
                                        !.db_url = db_url])
          ELSE Continue(i, [r EXCEPT !.pc = "check_url"])
    /\ UNCHANGED <<users, urls, url_seq, now, issued, hits>>

RedirectUpdateClicksWholeRow(i) ==
    /\ req[i].op = "redirect" /\ req[i].pc = "update_clicks"
    /\ LET row == RowById(req[i].db_url.id) IN
       IF row = NoUrl
       THEN /\ Reply(i, Respond(req[i], 500, "Internal Server Error"))
            /\ UNCHANGED <<urls, hits>>
       ELSE LET new == [req[i].db_url EXCEPT !.clicks = @ + 1] IN
            /\ urls' = (urls \ {row}) \cup {new}
            /\ hits' = [hits EXCEPT ![row.id] = @ + 1]
            /\ Reply(i, [Respond(req[i], 307, "") EXCEPT
                            !.target_url = new.target_url, !.db_url = new])
    /\ UNCHANGED <<users, url_seq, now, issued>>

\* update_db_clicks: db_url.clicks += 1 on the loaded object, then the commit
\* writes UPDATE urls SET clicks = <loaded + 1> WHERE id = <id>.
RedirectUpdateClicks(i) ==
    /\ req[i].op = "redirect" /\ req[i].pc = "update_clicks"
    /\ LET row == RowById(req[i].db_url.id) IN
       IF row = NoUrl
       THEN /\ Reply(i, Respond(req[i], 500, "Internal Server Error"))
            /\ UNCHANGED <<urls, hits>>
       ELSE LET new == [row EXCEPT !.clicks = req[i].db_url.clicks + 1] IN
            /\ urls' = (urls \ {row}) \cup {new}
            /\ hits' = [hits EXCEPT ![row.id] = @ + 1]
            /\ Reply(i, [Respond(req[i], 307, "") EXCEPT
                            !.target_url = new.target_url, !.db_url = new])
    /\ UNCHANGED <<users, url_seq, now, issued>>

\* The handler's else branch: a second get_db_url_by_key
RedirectCheckUrl(i) ==
    /\ req[i].op = "redirect" /\ req[i].pc = "check_url"
    /\ LET check_url == get_db_url_by_key(req[i].key) IN
       IF check_url # NoUrl /\ ~check_url.is_active
       THEN Reply(i, Respond(req[i], 404, "URL is deactivated"))
       ELSE Reply(i, Respond(req[i], 404, "Short URL not found"))
    /\ UNCHANGED <<users, urls, url_seq, now, issued, hits>>

-----------------------------------------------------------------------------
(* routers.py: GET /info/{secret_key} *)

GetUrlInfoAuth(i, token, secret_key) ==
    /\ req[i].pc = "idle"
    /\ LET r == [IdleReq EXCEPT !.op = "info", !.token = token,
                                !.secret_key = secret_key]
           cur == get_current_active_user(token)
       IN IF cur.status # 200
          THEN Reply(i, Respond(r, cur.status, cur.detail))
          ELSE Continue(i, [r EXCEPT !.pc = "get_url", !.user = cur.user.id])
    /\ UNCHANGED <<users, urls, url_seq, now, issued, hits>>

GetUrlInfo(i) ==
    /\ req[i].op = "info" /\ req[i].pc = "get_url"
    /\ LET db_url == get_db_url_by_secret_key(req[i].secret_key) IN
       IF db_url = NoUrl
       THEN Reply(i, Respond(req[i], 404, "URL not found"))
       ELSE IF db_url.owner_id # req[i].user
       THEN Reply(i, Respond(req[i], 403, "Permission denied"))
       ELSE Reply(i, [Respond(req[i], 200, "") EXCEPT !.body = db_url])
    /\ UNCHANGED <<users, urls, url_seq, now, issued, hits>>

-----------------------------------------------------------------------------
(* routers.py: DELETE /admin/{secret_key}  (crud.get_and_deactivate_url) *)

DeactivateUrlAuth(i, token, secret_key) ==
    /\ req[i].pc = "idle"
    /\ LET r == [IdleReq EXCEPT !.op = "deactivate", !.token = token,
                                !.secret_key = secret_key]
           cur == get_current_active_user(token)
       IN IF cur.status # 200
          THEN Reply(i, Respond(r, cur.status, cur.detail))
          ELSE Continue(i, [r EXCEPT !.pc = "get_url", !.user = cur.user.id])
    /\ UNCHANGED <<users, urls, url_seq, now, issued, hits>>

\* get_and_deactivate_url: the lookup and the owner test
DeactivateGetUrl(i) ==
    /\ req[i].op = "deactivate" /\ req[i].pc = "get_url"
    /\ LET db_url == get_db_url_by_secret_key(req[i].secret_key) IN
       IF db_url # NoUrl /\ OwnerMatches(db_url, req[i].user)
       THEN Continue(i, [req[i] EXCEPT !.pc = "deactivate",
                                       !.db_url = db_url])
       ELSE Continue(i, [req[i] EXCEPT !.pc = "check_url"])
    /\ UNCHANGED <<users, urls, url_seq, now, issued, hits>>

DeactivateCommitToggle(i) ==
    /\ req[i].op = "deactivate" /\ req[i].pc = "deactivate"
    /\ LET row == RowById(req[i].db_url.id) IN
       IF row = NoUrl
       THEN /\ Reply(i, Respond(req[i], 500, "Internal Server Error"))
            /\ UNCHANGED urls
       ELSE LET new == [row EXCEPT !.is_active = ~req[i].db_url.is_active] IN
            /\ urls' = (urls \ {row}) \cup {new}
            /\ Reply(i, [Respond(req[i], 200, "URL deactivated successfully")
                           EXCEPT !.db_url = new])
    /\ UNCHANGED <<users, url_seq, now, issued, hits>>

\* deactivate_db_url: UPDATE urls SET is_active = false WHERE id = <id>
DeactivateCommit(i) ==
    /\ req[i].op = "deactivate" /\ req[i].pc = "deactivate"
    /\ LET row == RowById(req[i].db_url.id) IN
       IF row = NoUrl
       THEN /\ Reply(i, Respond(req[i], 500, "Internal Server Error"))
            /\ UNCHANGED urls
       ELSE LET new == [row EXCEPT !.is_active = FALSE] IN
            /\ urls' = (urls \ {row}) \cup {new}
            /\ Reply(i, [Respond(req[i], 200, "URL deactivated successfully")
                           EXCEPT !.db_url = new])
    /\ UNCHANGED <<users, url_seq, now, issued, hits>>

\* The handler's `if not deactivated_url` branch: a second lookup
DeactivateCheckUrl(i) ==
    /\ req[i].op = "deactivate" /\ req[i].pc = "check_url"
    /\ IF get_db_url_by_secret_key(req[i].secret_key) = NoUrl
       THEN Reply(i, Respond(req[i], 404, "URL not found"))
       ELSE Reply(i, Respond(req[i], 403, "Permission denied"))
    /\ UNCHANGED <<users, urls, url_seq, now, issued, hits>>

-----------------------------------------------------------------------------
(* routers.py: GET /url/{short_key} *)

GetUrlDetails(i, short_key) ==
    /\ req[i].pc = "idle"
    /\ LET r == [IdleReq EXCEPT !.op = "details", !.key = short_key]
           db_url == get_db_url_by_key(short_key)
       IN IF db_url = NoUrl
          THEN Reply(i, Respond(r, 404, "Short URL not found"))
          ELSE IF ~db_url.is_active
          THEN Reply(i, Respond(r, 404, "URL is deactivated"))
          ELSE Reply(i, [Respond(r, 200, "") EXCEPT !.body = db_url])
    /\ UNCHANGED <<users, urls, url_seq, now, issued, hits>>

-----------------------------------------------------------------------------
(* routers.py: GET /urls *)

\* url_router has no route for the path /urls; the one GET route with a
\* single path segment is /{short_key}, so the request is served by
\* forward_to_target_url with short_key = "urls".  That handler has no bearer
\* dependency: the Authorization header travels with the request and nothing
\* reads it.  generate_random_key() returns 8 characters, so no URL has the
\* key "urls".
ListUrls(i, token) ==
    /\ req[i].pc = "idle"
    /\ LET r == [IdleReq EXCEPT !.op = "redirect", !.key = "urls",
                                !.token = token]
           db_url == get_db_url_by_key("urls")
       IN IF db_url # NoUrl /\ db_url.is_active
          THEN /\ hits[db_url.id] + RedirectsInFlight(db_url.id) < MaxRedirects
               /\ Continue(i, [r EXCEPT !.pc = "update_clicks",
                                        !.db_url = db_url])
          ELSE Continue(i, [r EXCEPT !.pc = "check_url"])
    /\ UNCHANGED <<users, urls, url_seq, now, issued, hits>>

-----------------------------------------------------------------------------
(* routers.py: DELETE /delete/{secret_key} *)

\* The decorator and the handler delete_url_permanently are commented out, so
\* url_router has no route for this method and path: the router answers 404
\* "Not Found" without running any dependency or handler.
DeleteUrlPermanently(i, token, secret_key) ==
    /\ req[i].pc = "idle"
    /\ LET r == [IdleReq EXCEPT !.op = "delete_url_permanently",
                                !.token = token, !.secret_key = secret_key]
       IN Reply(i, Respond(r, 404, "Not Found"))
    /\ UNCHANGED <<users, urls, url_seq, now, issued, hits>>

-----------------------------------------------------------------------------
(* crud.get_and_delete_url: no route calls it; it is called with an owner id *)

\* The lookup and the owner test; None is returned on a miss.
GetAndDeleteUrl(i, secret_key, owner_id) ==
    /\ req[i].pc = "idle"
    /\ LET r == [IdleReq EXCEPT !.op = "delete", !.secret_key = secret_key,
                                !.user = owner_id]
           db_url == get_db_url_by_secret_key(secret_key)
       IN IF db_url # NoUrl /\ OwnerMatches(db_url, owner_id)
          THEN Continue(i, [r EXCEPT !.pc = "delete", !.db_url = db_url])
          ELSE Reply(i, Respond(r, 0, "None"))
    /\ UNCHANGED <<users, urls, url_seq, now, issued, hits>>

\* delete_db_url: DELETE FROM urls WHERE id = <id>; the object is returned.
DeleteCommit(i) ==
    /\ req[i].op = "delete" /\ req[i].pc = "delete"
    /\ urls' = {u \in urls : u.id # req[i].db_url.id}
    /\ Reply(i, Respond(req[i], 0, "db_url"))
    /\ UNCHANGED <<users, url_seq, now, issued, hits>>

-----------------------------------------------------------------------------
(* Specifications *)

Init ==
    /\ users = {}
    /\ urls = {}
    /\ url_seq = 1
    /\ req = [i \in Slots |-> IdleReq]
    /\ resp = IdleReq
    /\ now = 0
    /\ issued = {}
    /\ hits = [u \in UrlIds |-> 0]

\* Every request the program serves, against an initially empty store.
Next ==
    \/ \E i \in Slots, username \in Usernames, email \in Emails,
          password \in Passwords :
          RegisterCheckUsername(i, username, email, password)
    \/ \E i \in Slots : RegisterCheckEmail(i)
    \/ \E i \in Slots : RegisterCommit(i)
    \/ \E i \in Slots, username \in Usernames, password \in Passwords :
          Login(i, username, password)
    \/ \E i \in Slots, token \in Presentable : ReadUsersMe(i, token)
    \/ Tick
    \/ \E i \in Slots, token \in Presentable, target_url \in Targets :
          CreateUrlAuth(i, token, target_url)
    \/ \E i \in Slots, key \in Keys : CreateGenerateKey(i, key)
    \/ \E i \in Slots, suffix \in Suffixes : CreateGenerateSecret(i, suffix)
    \/ \E i \in Slots : CreateCommit(i)
    \/ \E i \in Slots, short_key \in Keys : Redirect(i, short_key)
    \/ \E i \in Slots : RedirectUpdateClicks(i)
    \/ \E i \in Slots : RedirectCheckUrl(i)
    \/ \E i \in Slots, token \in Presentable, secret_key \in SecretKeys :
          GetUrlInfoAuth(i, token, secret_key)
    \/ \E i \in Slots : GetUrlInfo(i)
    \/ \E i \in Slots, token \in Presentable, secret_key \in SecretKeys :
          DeactivateUrlAuth(i, token, secret_key)
    \/ \E i \in Slots : DeactivateGetUrl(i)
    \/ \E i \in Slots : DeactivateCommit(i)
    \/ \E i \in Slots : DeactivateCheckUrl(i)
    \/ \E i \in Slots, token \in Presentable : ListUrls(i, token)
    \/ \E i \in Slots, token \in Presentable, secret_key \in SecretKeys :
          DeleteUrlPermanently(i, token, secret_key)
    \/ \E i \in Slots, short_key \in Keys : GetUrlDetails(i, short_key)

Spec == Init /\ [][Next]_vars

\* The specifications below are parts of Spec that TLC can explore in full:
\* each keeps the requests that read or write what its claims are about, and
\* the later ones start from a state Spec reaches (SeedUsers is reached by
\* SpecRegSeq, SeedIssued by SpecAuth, SeedUrls by SpecCreate).

\* Registration against an initially empty store.
NextReg ==
    \/ \E i \in Slots, username \in Usernames, email \in Emails :
          RegisterCheckUsername(i, username, email, "pw1")
    \/ \E i \in Slots : RegisterCheckEmail(i)
    \/ \E i \in Slots : RegisterCommit(i)

SpecReg == Init /\ [][NextReg]_vars

\* The same requests served one at a time: a request arrives only when no
\* other request is in flight.
AllIdle == \A j \in Slots : req[j].pc = "idle"

NextRegSeq ==
    \/ \E i \in Slots, username \in Usernames, email \in Emails :
          AllIdle /\ RegisterCheckUsername(i, username, email, "pw1")
    \/ \E i \in Slots : RegisterCheckEmail(i)
    \/ \E i \in Slots : RegisterCommit(i)

SpecRegSeq == Init /\ [][NextRegSeq]_vars

\* Two users registered one after the other.
SeedUsers ==
    {[id |-> 1, username |-> "a@x", email |-> "b@x",
      hashed_password |-> get_password_hash("pw1"), is_active |-> TRUE],
     [id |-> 2, username |-> "bob", email |-> "a@x",
      hashed_password |-> get_password_hash("pw1"), is_active |-> TRUE]}

\* The state after the first registration.
InitUsers ==
    /\ users = {u \in SeedUsers : u.id = 1}
    /\ urls = {}
    /\ url_seq = 1
    /\ req = [i \in Slots |-> IdleReq]
    /\ resp = IdleReq
    /\ now = 0
    /\ issued = {}
    /\ hits = [u \in UrlIds |-> 0]

\* Registration (one at a time), login, token resolution and the passing of
\* time.
NextAuth ==
    \/ \E i \in Slots, username \in Usernames, email \in Emails :
          AllIdle /\ RegisterCheckUsername(i, username, email, "pw1")
    \/ \E i \in Slots : RegisterCheckEmail(i)
    \/ \E i \in Slots : RegisterCommit(i)
    \/ \E i \in Slots, username \in Usernames, password \in Passwords :
          Login(i, username, password)
    \/ \E i \in Slots, token \in Presentable : ReadUsersMe(i, token)
    \/ Tick

SpecAuth == InitUsers /\ [][NextAuth]_vars

\* Each of the two users has logged in at time 0.
SeedIssued ==
    {[token |-> [sub |-> u.email, exp |-> ACCESS_TOKEN_EXPIRE_MINUTES,
                 sig |-> SECRET_KEY],
      uid |-> u.id] : u \in SeedUsers}

InitUrl ==
    /\ users = SeedUsers
    /\ urls = {}
    /\ url_seq = 1
    /\ req = [i \in Slots |-> IdleReq]
    /\ resp = IdleReq
    /\ now = 0
    /\ issued = SeedIssued
    /\ hits = [u \in UrlIds |-> 0]

\* POST /url alone, called by the two logged-in users and by anyone.
NextCreate ==
    \/ \E i \in Slots, token \in Presentable, target_url \in Targets :
          CreateUrlAuth(i, token, target_url)
    \/ \E i \in Slots, key \in Keys : CreateGenerateKey(i, key)
    \/ \E i \in Slots, suffix \in Suffixes : CreateGenerateSecret(i, suffix)
    \/ \E i \in Slots : CreateCommit(i)

SpecCreate == InitUrl /\ [][NextCreate]_vars

\* The endpoints that answer with a URL record.
NextRead ==
    \/ \E i \in Slots, token \in Presentable, target_url \in Targets :
          CreateUrlAuth(i, token, target_url)
    \/ \E i \in Slots, key \in Keys : CreateGenerateKey(i, key)
    \/ \E i \in Slots, suffix \in Suffixes : CreateGenerateSecret(i, suffix)
    \/ \E i \in Slots : CreateCommit(i)
    \/ \E i \in Slots, token \in Presentable, secret_key \in SecretKeys :
          GetUrlInfoAuth(i, token, secret_key)
    \/ \E i \in Slots : GetUrlInfo(i)
    \/ \E i \in Slots, short_key \in Keys : GetUrlDetails(i, short_key)

SpecRead == InitUrl /\ [][NextRead]_vars

\* Each user has created one URL.
SeedUrls ==
    {[id |-> 1, key |-> "k1", secret_key |-> MakeSecretKey("k1", "s1"),
      target_url |-> "http://t", is_active |-> TRUE, clicks |-> 0,
      owner_id |-> 1],
     [id |-> 2, key |-> "k2", secret_key |-> MakeSecretKey("k2", "s2"),
      target_url |-> "http://t", is_active |-> TRUE, clicks |-> 0,
      owner_id |-> 2]}

InitSeeded ==
    /\ users = SeedUsers
    /\ urls = SeedUrls
    /\ url_seq = 3
    /\ req = [i \in Slots |-> IdleReq]
    /\ resp = IdleReq
    /\ now = 0
    /\ issued = SeedIssued
    /\ hits = [u \in UrlIds |-> 0]

\* The short keys asked for: the two URLs' and one no URL has.
PathKeys == Keys \cup {"zz"}

\* The secret keys asked for: the two URLs' and one no URL has.
PathSecrets == {u.secret_key : u \in SeedUrls} \cup {MakeSecretKey("k1", "s2")}

\* Redirects and deactivations of the two URLs.
NextClicks ==
    \/ \E i \in Slots, short_key \in PathKeys : Redirect(i, short_key)
    \/ \E i \in Slots : RedirectUpdateClicks(i)
    \/ \E i \in Slots : RedirectCheckUrl(i)
    \/ \E i \in Slots, token \in Presentable, secret_key \in PathSecrets :
          DeactivateUrlAuth(i, token, secret_key)
    \/ \E i \in Slots : DeactivateGetUrl(i)
    \/ \E i \in Slots : DeactivateCommit(i)
    \/ \E i \in Slots : DeactivateCheckUrl(i)

SpecClicks == InitSeeded /\ [][NextClicks]_vars

\* Deactivation, and crud.get_and_delete_url called for either user.
NextCrud ==
    \/ \E i \in Slots, token \in Presentable, secret_key \in PathSecrets :
          DeactivateUrlAuth(i, token, secret_key)
    \/ \E i \in Slots : DeactivateGetUrl(i)
    \/ \E i \in Slots : DeactivateCommit(i)
    \/ \E i \in Slots : DeactivateCheckUrl(i)
    \/ \E i \in Slots, secret_key \in PathSecrets, u \in users :
          GetAndDeleteUrl(i, secret_key, u.id)
    \/ \E i \in Slots : DeleteCommit(i)

SpecCrud == InitSeeded /\ [][NextCrud]_vars

\* The two users, the first with the active flag cleared.  No request clears
\* the flag: the column is written by whoever administers the database.
SeedInactive ==
    {IF u.id = 1 THEN [u EXCEPT !.is_active = FALSE] ELSE u : u \in SeedUsers}

InitLogin ==
    /\ users = SeedInactive
    /\ urls = {}
    /\ url_seq = 1
    /\ req = [i \in Slots |-> IdleReq]
    /\ resp = IdleReq
    /\ now = 0
    /\ issued = {}
    /\ hits = [u \in UrlIds |-> 0]

\* What a client may type into the login form: the usernames and emails of
\* the model and one that belongs to nobody.
LoginNames == Usernames \cup {"c@x"}

\* POST /token and GET /users/me with an inactive user in the store.
NextLogin ==
    \/ \E i \in Slots, username \in LoginNames, password \in Passwords :
          Login(i, username, password)
    \/ \E i \in Slots, token \in Presentable : ReadUsersMe(i, token)
    \/ Tick

SpecLogin == InitLogin /\ [][NextLogin]_vars

\* Bearer strings that login never handed out: an issued token whose
\* signature was made with another key, a string that is not a JWT, a signed
\* token without the sub claim, and a signed token whose subject has no row
\* in the users table.
ForgedTokens ==
    {[t.token EXCEPT !.sig = "other"] : t \in SeedIssued}
    \cup {[sub |-> "not.a.jwt", exp |-> 0, sig |-> ""],
          [sub |-> "", exp |-> MaxTime, sig |-> SECRET_KEY],
          [sub |-> "c@x", exp |-> MaxTime, sig |-> SECRET_KEY]}

GateTokens == Presentable \cup ForgedTokens

\* Both users logged in at time 0, the first one's flag was cleared since, and
\* the first user has created one URL.
InitGate ==
    /\ users = SeedInactive
    /\ urls = {u \in SeedUrls : u.id = 1}
    /\ url_seq = 2
    /\ req = [i \in Slots |-> IdleReq]
    /\ resp = IdleReq
    /\ now = 0
    /\ issued = SeedIssued
    /\ hits = [u \in UrlIds |-> 0]

\* The four operations behind Depends(auth.get_current_active_user), called
\* with any bearer string, while time passes.  The gate reads the users table
\* and the clock, which no request in flight writes, so the requests are
\* taken one at a time.
NextGate ==
    \/ \E i \in Slots, token \in GateTokens :
          AllIdle /\ ReadUsersMe(i, token)
    \/ \E i \in Slots, token \in GateTokens, target_url \in Targets :
          AllIdle /\ CreateUrlAuth(i, token, target_url)
    \/ \E i \in Slots, key \in Keys : CreateGenerateKey(i, key)
    \/ \E i \in Slots, suffix \in Suffixes : CreateGenerateSecret(i, suffix)
    \/ \E i \in Slots : CreateCommit(i)
    \/ \E i \in Slots, token \in GateTokens, secret_key \in PathSecrets :
          AllIdle /\ GetUrlInfoAuth(i, token, secret_key)
    \/ \E i \in Slots : GetUrlInfo(i)
    \/ \E i \in Slots, token \in GateTokens, secret_key \in PathSecrets :
          AllIdle /\ DeactivateUrlAuth(i, token, secret_key)
    \/ \E i \in Slots : DeactivateGetUrl(i)
    \/ \E i \in Slots : DeactivateCommit(i)
    \/ \E i \in Slots : DeactivateCheckUrl(i)
    \/ Tick

SpecGate == InitGate /\ [][NextGate]_vars

\* The second user has deactivated their URL; the first user's is active.
InitLifecycle ==
    /\ users = SeedUsers
    /\ urls = {IF u.id = 2 THEN [u EXCEPT !.is_active = FALSE] ELSE u :
                  u \in SeedUrls}
    /\ url_seq = 3
    /\ req = [i \in Slots |-> IdleReq]
    /\ resp = IdleReq
    /\ now = 0
    /\ issued = SeedIssued
    /\ hits = [u \in UrlIds |-> 0]

\* Redirects of any key, and deactivate requests of either user for the first
\* user's URL.
NextLifecycle ==
    \/ \E i \in Slots, short_key \in PathKeys : Redirect(i, short_key)
    \/ \E i \in Slots : RedirectUpdateClicks(i)
    \/ \E i \in Slots : RedirectCheckUrl(i)
    \/ \E i \in Slots, t \in issued :
          DeactivateUrlAuth(i, t.token, MakeSecretKey("k1", "s1"))
    \/ \E i \in Slots : DeactivateGetUrl(i)
    \/ \E i \in Slots : DeactivateCommit(i)
    \/ \E i \in Slots : DeactivateCheckUrl(i)

SpecLifecycle == InitLifecycle /\ [][NextLifecycle]_vars

\* The owners' management requests on the two stored URLs, one active and
\* one deactivated, and redirects.
NextManage ==
    \/ \E i \in Slots, token \in Presentable, secret_key \in PathSecrets :
          DeleteUrlPermanently(i, token, secret_key)
    \/ \E i \in Slots, token \in Presentable, secret_key \in PathSecrets :
          GetUrlInfoAuth(i, token, secret_key)
    \/ \E i \in Slots : GetUrlInfo(i)
    \/ \E i \in Slots, short_key \in PathKeys : Redirect(i, short_key)
    \/ \E i \in Slots : RedirectUpdateClicks(i)
    \/ \E i \in Slots : RedirectCheckUrl(i)

SpecManage == InitLifecycle /\ [][NextManage]_vars

\* GET /info and DELETE /admin by either user or by anyone, for the secret
\* keys of the two stored URLs (one active, one deactivated) and for one that
\* no URL has.
NextOwnerGate ==
    \/ \E i \in Slots, token \in Presentable, secret_key \in PathSecrets :
          GetUrlInfoAuth(i, token, secret_key)
    \/ \E i \in Slots : GetUrlInfo(i)
    \/ \E i \in Slots, token \in Presentable, secret_key \in PathSecrets :
          DeactivateUrlAuth(i, token, secret_key)
    \/ \E i \in Slots : DeactivateGetUrl(i)
    \/ \E i \in Slots : DeactivateCommit(i)
    \/ \E i \in Slots : DeactivateCheckUrl(i)

SpecOwnerGate == InitLifecycle /\ [][NextOwnerGate]_vars

\* The first user's URL, and a URL whose owner_id is NULL (0 here: user ids
\* start at 1).  POST /url always stores the caller's id, so such a row gets
\* into the table only from outside the program; the column allows it.
InitAnonymous ==
    /\ users = SeedUsers
    /\ urls = {IF u.id = 2 THEN [u EXCEPT !.owner_id = 0] ELSE u :
                  u \in SeedUrls}
    /\ url_seq = 3
    /\ req = [i \in Slots |-> IdleReq]
    /\ resp = IdleReq
    /\ now = 0
    /\ issued = SeedIssued
    /\ hits = [u \in UrlIds |-> 0]

\* GET /info and DELETE /admin by either user, and crud.get_and_delete_url
\* called for either user, on the secret keys of the two URLs.
NextAnonymous ==
    \/ \E i \in Slots, t \in issued, l \in urls :
          GetUrlInfoAuth(i, t.token, l.secret_key)
    \/ \E i \in Slots : GetUrlInfo(i)
    \/ \E i \in Slots, t \in issued, l \in urls :
          DeactivateUrlAuth(i, t.token, l.secret_key)
    \/ \E i \in Slots : DeactivateGetUrl(i)
    \/ \E i \in Slots : DeactivateCommit(i)
    \/ \E i \in Slots : DeactivateCheckUrl(i)
    \/ \E i \in Slots, l \in urls, u \in users :
          GetAndDeleteUrl(i, l.secret_key, u.id)
    \/ \E i \in Slots : DeleteCommit(i)

SpecAnonymous == InitAnonymous /\ [][NextAnonymous]_vars

\* The first user has created one URL.
InitOne ==
    /\ users = SeedUsers
    /\ urls = {u \in SeedUrls : u.id = 1}
    /\ url_seq = 2
    /\ req = [i \in Slots |-> IdleReq]
    /\ resp = IdleReq
    /\ now = 0
    /\ issued = SeedIssued
    /\ hits = [u \in UrlIds |-> 0]

\* The first user's URL is redirected, and read out and deactivated by its
\* owner and by the second user, while the second user creates URLs.
NextUrls ==
    \/ \E i \in Slots, t \in {x \in issued : x.uid = 2},
          target_url \in Targets :
          CreateUrlAuth(i, t.token, target_url)
    \/ \E i \in Slots, key \in Keys : CreateGenerateKey(i, key)
    \/ \E i \in Slots, suffix \in Suffixes : CreateGenerateSecret(i, suffix)
    \/ \E i \in Slots : CreateCommit(i)
    \/ \E i \in Slots, l \in {u \in urls : u.id = 1} : Redirect(i, l.key)
    \/ \E i \in Slots : RedirectUpdateClicks(i)
    \/ \E i \in Slots : RedirectCheckUrl(i)
    \/ \E i \in Slots, t \in issued, l \in {u \in urls : u.id = 1} :
          GetUrlInfoAuth(i, t.token, l.secret_key)
    \/ \E i \in Slots : GetUrlInfo(i)
    \/ \E i \in Slots, t \in issued, l \in {u \in urls : u.id = 1} :
          DeactivateUrlAuth(i, t.token, l.secret_key)
    \/ \E i \in Slots : DeactivateGetUrl(i)
    \/ \E i \in Slots : DeactivateCommit(i)
    \/ \E i \in Slots : DeactivateCheckUrl(i)

SpecUrls == InitOne /\ [][NextUrls]_vars

\* GET /urls by either user or by anyone, and redirects, with one active and
\* one deactivated URL stored.
NextList ==
    \/ \E i \in Slots, token \in Presentable : ListUrls(i, token)
    \/ \E i \in Slots, short_key \in PathKeys : Redirect(i, short_key)
    \/ \E i \in Slots : RedirectUpdateClicks(i)
    \/ \E i \in Slots : RedirectCheckUrl(i)

SpecList == InitLifecycle /\ [][NextList]_vars

\* A short-key space of one key, so that it can run out: the first stored
\* URL takes the only value generate_random_key() returns.
KeySpace == {"k1"}

\* POST /url over that key space.
NextExhaust ==
    \/ \E i \in Slots, token \in Presentable, target_url \in Targets :
          CreateUrlAuth(i, token, target_url)
    \/ \E i \in Slots, key \in KeySpace : CreateGenerateKey(i, key)
    \/ \E i \in Slots, suffix \in Suffixes : CreateGenerateSecret(i, suffix)
    \/ \E i \in Slots : CreateCommit(i)

\* A handler that has started keeps running (weak fairness of each of its
\* statements), and the random key choice is fair: a loop that can draw an
\* unused value infinitely often does draw one (strong fairness).
FairCreate ==
    \A i \in Slots :
        /\ WF_vars(\E key \in KeySpace : CreateGenerateKey(i, key))
        /\ SF_vars(\E key \in KeySpace :
                      get_db_url_by_key(key) = NoUrl
                      /\ CreateGenerateKey(i, key))
        /\ SF_vars(\E suffix \in Suffixes :
                      get_db_url_by_secret_key(
                          MakeSecretKey(req[i].key, suffix)) = NoUrl
                      /\ CreateGenerateSecret(i, suffix))
        /\ WF_vars(CreateCommit(i))

SpecExhaust == InitUrl /\ [][NextExhaust]_vars /\ FairCreate

-----------------------------------------------------------------------------
(* URL keys *)

\* C1: in every reachable state, concurrent creates included, no two stored
\* URLs share a short key and no two share a secret key; and the key pair of
\* every URL that create returns was held by no stored URL when it was
\* inserted.
C1_KeysUnique ==
    /\ [](\A u, v \in urls :
            u # v => u.key # v.key /\ u.secret_key # v.secret_key)
    /\ [][(resp'.op = "create" /\ resp'.status = 201)
          => /\ resp'.body \in urls'
             /\ \A u \in urls : /\ u.key # resp'.body.key
                                /\ u.secret_key # resp'.body.secret_key]_vars

\* C1 witness: a create has just stored its URL while a concurrent create that
\* passed both existence checks with the same key pair is about to insert.
C1_Witness ==
    /\ resp.op = "create" /\ resp.status = 201
    /\ \E j \in Slots : /\ req[j].op = "create" /\ req[j].pc = "commit"
                        /\ req[j].key = resp.body.key
                        /\ req[j].secret_key = resp.body.secret_key

-----------------------------------------------------------------------------
(* Click counting *)

Clicks(id) == RowById(id).clicks

\* C2: no redirect is lost: the stored click counter of every URL equals the
\* number of redirects of its key that were answered 307.
C2_NoLostUpdate == \A u \in urls : u.clicks = hits[u.id]

\* C4: every successful redirect raises the click count of the URL it names by
\* exactly 1 and leaves every other URL's count alone, and a redirect that is
\* answered not-found or deactivated leaves every count alone.
C4_RedirectCountsOne ==
    [][resp'.op = "redirect"
       => \A u \in urls :
            Clicks(u.id)' = IF resp'.status = 307 /\ u.key = resp'.key
                            THEN u.clicks + 1
                            ELSE u.clicks]_vars

\* C6: the click counter of a URL never decreases, and it changes only in a
\* successful redirect of that URL while the stored URL is active: once the
\* deactivation is committed the counter stays as it is.
C6_ClicksFrozenAfterDeactivation ==
    [][\A u \in urls :
         /\ Clicks(u.id)' >= u.clicks
         /\ Clicks(u.id)' # u.clicks
            => /\ resp'.op = "redirect" /\ resp'.status = 307
               /\ resp'.key = u.key
               /\ u.is_active]_vars

-----------------------------------------------------------------------------
(* Secret keys and the owner gate *)

\* C3: a response that carries a URL record with its secret key goes to an
\* authenticated caller who is the owner of that URL.
C3_SecretOnlyToOwner ==
    resp.body # NoUrl => (resp.user # 0 /\ resp.user = resp.body.owner_id)

\* Request r is not made by the owner of the URL its secret key names, or no
\* stored URL has that secret key.
NonOwner(r) ==
    \A u \in urls : u.secret_key = r.secret_key => u.owner_id # r.user

\* C5: a deactivate or delete request that is not the owner's when it looks
\* the secret key up (the URL has another owner, or no URL has the key) goes
\* on to no write, is answered with a failure and leaves the urls table as it
\* is; the urls table changes under deactivate or delete only for a request of
\* the owner of the row it loaded.
C5_NonOwnerNeverMutates ==
    [][\A i \in Slots :
         LET lookup == \/ req[i].op = "deactivate" /\ req[i].pc = "get_url"
                       \/ req[i].pc = "idle" /\ req'[i].op = "delete"
                       \/ req' = req /\ resp'.op = "delete"
             r == IF req[i].op = "deactivate" THEN req[i]
                  ELSE IF req'[i].op = "delete" THEN req'[i] ELSE resp'
         IN /\ (lookup /\ req'[i] # req[i] /\ NonOwner(r))
               => /\ urls' = urls
                  /\ req'[i].pc \notin {"deactivate", "delete"}
            /\ (lookup /\ req' = req /\ resp'.op = "delete" /\ NonOwner(r))
               => urls' = urls /\ resp'.detail = "None"
            /\ (req[i].op = "deactivate" /\ req[i].pc = "check_url"
                /\ req'[i] # req[i])
               => urls' = urls /\ resp'.status \in {403, 404}
            /\ (req[i].op \in {"deactivate", "delete"} /\ req'[i] # req[i]
                /\ urls' # urls)
               => /\ req[i].db_url.owner_id = req[i].user
                  /\ req[i].db_url.secret_key = req[i].secret_key]_vars

\* C5 witness: a user has just been refused (403) the deactivation of an
\* existing URL of another owner, which is still active.
C5_Witness ==
    /\ resp.op = "deactivate" /\ resp.status = 403
    /\ \E u \in urls : /\ u.secret_key = resp.secret_key
                       /\ u.owner_id # resp.user
                       /\ u.is_active

-----------------------------------------------------------------------------
(* Registration *)

UsernameHeld(username) == \E u \in users : u.username = username
EmailHeld(email) == \E u \in users : u.email = email

\* C7: usernames are pairwise distinct and emails are pairwise distinct in
\* every reachable state, concurrent registrations included, and a
\* registration that is answered while its username or its email is held by
\* an existing user is refused and leaves the users table as it was.
C7_DuplicateRegistrationFails ==
    /\ [](\A u, v \in users :
            u # v => u.username # v.username /\ u.email # v.email)
    /\ [][(resp'.op = "register"
           /\ (UsernameHeld(resp'.username) \/ EmailHeld(resp'.email)))
          => (resp'.status # 201 /\ users' = users)]_vars

\* C7 witness: a registration with a held username and a fresh email has just
\* been refused.
C7_Witness ==
    /\ resp.op = "register" /\ resp.status # 201
    /\ UsernameHeld(resp.username) /\ ~EmailHeld(resp.email)

\* C8: a registration whose username is held by an existing user and whose
\* email is not registered is answered 400, not with an internal error.
C8_DuplicateUsernameIs400 ==
    (/\ resp.op = "register"
     /\ UsernameHeld(resp.username) /\ ~EmailHeld(resp.email))
    => resp.status = 400

\* C9: registration fails only if the username or the email is already
\* present: a refused registration names a held username or a held email.
C9_FreshRegistrationSucceeds ==
    (resp.op = "register" /\ resp.status # 201)
    => (UsernameHeld(resp.username) \/ EmailHeld(resp.email))

-----------------------------------------------------------------------------
(* Tokens *)

\* C10: a token that login issued for user U resolves to U and to no other
\* user at every time before its expiry, and at every time after its expiry
\* resolution fails with the credentials error.
C10_TokenResolvesToItsUser ==
    \A t \in issued :
        (resp.op = "me" /\ resp.token = t.token)
        => /\ now < t.token.exp
              => resp.status = 200 /\ resp.body_user.id = t.uid
           /\ now > t.token.exp
              => /\ resp.status = 401
                 /\ resp.detail = "Could not validate credentials"
                 /\ resp.body_user = NoUser

\* C10 witness: a token is resolved to its user before its expiry while
\* another user's username equals the token's subject.
C10_Witness ==
    \E t \in issued :
        /\ resp.op = "me" /\ resp.token = t.token /\ resp.status = 200
        /\ now < t.token.exp
        /\ \E u \in users : u.id # t.uid /\ u.username = t.token.sub

\* A token has just been refused after its expiry.
C10_ExpiredRefused ==
    \E t \in issued :
        /\ resp.op = "me" /\ resp.token = t.token /\ resp.status = 401
        /\ now > t.token.exp

-----------------------------------------------------------------------------
(* Login *)

\* The three causes for which authenticate refuses a login.
NoSuchUser(username) == \A u \in users : u.email # username
WrongPassword(username, password) ==
    \E u \in users : /\ u.email = username
                      /\ u.hashed_password # get_password_hash(password)
InactiveAccount(username, password) ==
    \E u \in users : /\ u.email = username
                      /\ u.hashed_password = get_password_hash(password)
                      /\ ~u.is_active

\* C11: a login whose identifier matches no user, whose password does not
\* match, or whose account is inactive is answered with one and the same
\* response (401, "Incorrect username or password", no token) whatever the
\* cause, and hands out no token.
C11_LoginFailsUniformly ==
    [][(/\ resp'.op = "login"
        /\ \/ NoSuchUser(resp'.username)
           \/ WrongPassword(resp'.username, resp'.password)
           \/ InactiveAccount(resp'.username, resp'.password))
       => /\ resp' = Respond([IdleReq EXCEPT !.op = "login",
                                             !.username = resp'.username,
                                             !.password = resp'.password],
                             401, "Incorrect username or password")
          /\ issued' = issued]_vars

\* C11 witness: the login of an inactive account with its right password has
\* just been refused.
C11_Witness ==
    /\ resp.op = "login" /\ resp.status = 401
    /\ InactiveAccount(resp.username, resp.password)

-----------------------------------------------------------------------------
(* The bearer gate *)

\* The operations declared with Depends(auth.get_current_active_user).
GatedOps == {"me", "create", "info", "deactivate"}

\* A bearer string that is malformed or mis-signed, is expired, lacks the
\* subject claim, or whose subject is the email of no user.
BadToken(t) ==
    /\ t # NoToken
    /\ \/ t.sig # SECRET_KEY
       \/ t.exp < now
       \/ t.sub = ""
       \/ \A u \in users : u.email # t.sub

\* A valid token whose user has the active flag cleared.
InactiveToken(t) ==
    /\ t.sig = SECRET_KEY /\ ~(t.exp < now)
    /\ \E u \in users : u.email = t.sub /\ ~u.is_active

\* C12: a gated request that arrives with a bad token is answered at once
\* with 401 "Could not validate credentials": no user and no record is
\* returned, the store is unchanged, and no such request gets past the gate.
C12_BadTokenRefused ==
    [][/\ (resp'.op \in GatedOps /\ req' = req /\ BadToken(resp'.token))
          => /\ resp'.status = 401
             /\ resp'.detail = "Could not validate credentials"
             /\ resp'.user = 0 /\ resp'.body_user = NoUser
             /\ resp'.body = NoUrl
             /\ users' = users /\ urls' = urls /\ url_seq' = url_seq
       /\ \A i \in Slots :
             (req[i].pc = "idle" /\ req'[i].pc # "idle")
             => ~BadToken(req'[i].token)]_vars

\* C12 witness: a token that names an active user but was signed with another
\* key has just been refused.
C12_Witness ==
    /\ resp.op \in GatedOps /\ resp.status = 401
    /\ resp.token.sig = "other"
    /\ \E u \in users : u.email = resp.token.sub /\ u.is_active

\* C13: a gated request that arrives with a valid token of an inactive user
\* is answered at once with 400 "Inactive user" (not the 401 of the
\* credentials error): nothing is returned, no stored record changes, and no
\* such request gets past the gate.
C13_InactiveUserRefused ==
    [][/\ (resp'.op \in GatedOps /\ req' = req /\ InactiveToken(resp'.token))
          => /\ resp'.status = 400
             /\ resp'.detail = "Inactive user"
             /\ resp'.detail # "Could not validate credentials"
             /\ resp'.user = 0 /\ resp'.body_user = NoUser
             /\ resp'.body = NoUrl
             /\ users' = users /\ urls' = urls /\ url_seq' = url_seq
       /\ \A i \in Slots :
             (req[i].pc = "idle" /\ req'[i].pc # "idle")
             => ~InactiveToken(req'[i].token)]_vars

\* C13 witness: an inactive user presenting a valid token has just been
\* refused the deactivation of a URL of their own, which is still active.
C13_Witness ==
    /\ resp.op = "deactivate" /\ resp.status = 400
    /\ InactiveToken(resp.token)
    /\ \E u \in users, l \in urls :
          /\ u.email = resp.token.sub
          /\ l.owner_id = u.id /\ l.secret_key = resp.secret_key
          /\ l.is_active

-----------------------------------------------------------------------------
(* Redirect outcomes *)

\* A URL with this short key is stored and is deactivated.
Deactivated(key) == \E u \in urls : u.key = key /\ ~u.is_active

\* C14: a redirect of a short key that no URL has is answered 404 "Short URL
\* not found"; a redirect that arrives for the short key of a deactivated URL
\* goes to no update and is answered 404, and a 404 for the short key of a
\* deactivated URL always says "URL is deactivated", never "Short URL not
\* found".
C14_RedirectOutcomes ==
    /\ []((resp.op = "redirect" /\ \A u \in urls : u.key # resp.key)
           => (resp.status = 404 /\ resp.detail = "Short URL not found"))
    /\ []((resp.op = "redirect" /\ Deactivated(resp.key))
           => (resp.status = 404 => resp.detail = "URL is deactivated"))
    /\ [][\A i \in Slots :
             (/\ req[i].pc = "idle" /\ req'[i].op = "redirect"
              /\ Deactivated(req'[i].key))
             => req'[i].pc = "check_url"]_vars

\* C14 witness: a redirect of the key of a deactivated, still stored URL has
\* just been answered "URL is deactivated".
C14_Witness ==
    /\ resp.op = "redirect" /\ resp.status = 404
    /\ resp.detail = "URL is deactivated"
    /\ Deactivated(resp.key)

\* A redirect of a key that no URL has was just answered not-found.
C14_NeverCreated ==
    /\ resp.op = "redirect" /\ resp.detail = "Short URL not found"
    /\ \A u \in urls : u.key # resp.key

-----------------------------------------------------------------------------
(* The active flag *)

\* C15: a stored URL whose active flag is false keeps it false in every
\* step, and the flag of a URL goes from true to false only in the step that
\* answers 200 to a deactivate request made with that URL's secret key by its
\* owner.
C15_DeactivationTerminal ==
    [][\A u \in urls : \A v \in urls' :
         v.id = u.id
         => /\ ~u.is_active => ~v.is_active
            /\ (u.is_active /\ ~v.is_active)
               => /\ resp'.op = "deactivate" /\ resp'.status = 200
                  /\ resp'.secret_key = u.secret_key
                  /\ resp'.user = u.owner_id]_vars

\* C15 witness: a redirect that had read the URL while it was active has just
\* written its click after the deactivation, and the URL is still deactivated.
C15_Witness ==
    /\ resp.op = "redirect" /\ resp.status = 307
    /\ Deactivated(resp.key)

-----------------------------------------------------------------------------
(* Delete *)

\* C16: a delete request made over HTTP by the owner of a stored URL, active
\* or deactivated, with a valid token succeeds and removes the record.
C16_OwnerCanDelete ==
    [][(/\ resp'.op = "delete_url_permanently"
        /\ \E l \in urls, t \in issued :
              /\ l.secret_key = resp'.secret_key
              /\ t.token = resp'.token /\ t.uid = l.owner_id
              /\ ~(t.token.exp < now))
       => /\ resp'.status = 200
          /\ \A l \in urls' : l.secret_key # resp'.secret_key]_vars

-----------------------------------------------------------------------------
(* The owner gate of info and deactivate *)

\* What the gate owes requester `user` for `secret_key`, by the stored URLs.
GateStatus(secret_key, user) ==
    IF \A u \in urls : u.secret_key # secret_key THEN 404
    ELSE IF \A u \in urls : u.secret_key = secret_key => u.owner_id # user
    THEN 403
    ELSE 200

\* C17: an info or deactivate request that got past the bearer gate is
\* answered 404 "URL not found" exactly when no stored URL has its secret key,
\* 403 "Permission denied" exactly when one has and its owner is not the
\* requester, and 200 exactly when its owner is the requester - the same for
\* both operations.
C17_SameOwnerGate ==
    (resp.op \in {"info", "deactivate"} /\ resp.user # 0)
    => /\ resp.status = GateStatus(resp.secret_key, resp.user)
       /\ resp.status = 404 => resp.detail = "URL not found"
       /\ resp.status = 403 => resp.detail = "Permission denied"

\* C17 witness: the owner of a deactivated URL has just been answered 200 by
\* info on its secret key.
C17_Witness ==
    /\ resp.op = "info" /\ resp.status = 200
    /\ resp.body.owner_id = resp.user /\ ~resp.body.is_active

-----------------------------------------------------------------------------
(* Anonymous URLs *)

\* A stored URL without an owner has this secret key.
Anonymous(secret_key) ==
    \E u \in urls : u.secret_key = secret_key /\ u.owner_id = 0

\* C18: info and deactivate on the secret key of a URL whose owner is null are
\* answered 403 to every authenticated user, get_and_delete_url returns None
\* for every user, and no step of these operations changes or removes such a
\* URL.
C18_AnonymousNeverOwned ==
    /\ []((resp.op \in {"info", "deactivate"} /\ resp.user # 0
            /\ Anonymous(resp.secret_key))
           => resp.status = 403)
    /\ []((resp.op = "delete" /\ Anonymous(resp.secret_key))
           => resp.detail = "None")
    /\ [][\A u \in urls : u.owner_id = 0 => u \in urls']_vars

\* C18 witness: a logged-in user has just been refused the deactivation of an
\* anonymous URL, which is still active.
C18_Witness ==
    /\ resp.op = "deactivate" /\ resp.status = 403 /\ resp.user # 0
    /\ \E u \in urls : /\ u.secret_key = resp.secret_key
                       /\ u.owner_id = 0 /\ u.is_active

-----------------------------------------------------------------------------
(* What never changes in a URL *)

\* C19: in every step - of create, redirect, info, deactivate, and of every
\* request that fails - each stored URL remains stored with the same
\* owner_id, short key, secret key and target URL.
C19_OwnerImmutable ==
    [][\A u \in urls :
         \E v \in urls' : /\ v.id = u.id
                           /\ v.owner_id = u.owner_id
                           /\ v.key = u.key
                           /\ v.secret_key = u.secret_key
                           /\ v.target_url = u.target_url]_vars

\* C19 witness: a URL that was redirected and then deactivated is stored next
\* to a URL another user has just created for the same target.
C19_Witness ==
    /\ resp.op = "create" /\ resp.status = 201
    /\ \E u \in urls : /\ u.clicks > 0 /\ ~u.is_active
                       /\ u.owner_id # resp.body.owner_id
                       /\ u.target_url = resp.body.target_url

-----------------------------------------------------------------------------
(* What create stores *)

\* C20: every create that answers 201 has added one row to the urls table,
\* the one it returns, active and with 0 clicks; the rows stored before are
\* all still there, and none of them has the new row's short key - also when
\* the caller and the target URL are those of an earlier create.
C20_CreateStoresNewActiveUrl ==
    [][(resp'.op = "create" /\ resp'.status = 201)
       => /\ resp'.body.is_active /\ resp'.body.clicks = 0
          /\ resp'.body.target_url = resp'.target_url
          /\ resp'.body \notin urls
          /\ urls' = urls \cup {resp'.body}
          /\ \A u \in urls : u.key # resp'.body.key]_vars

\* C20 witness: a user's second create for the same target URL has just been
\* stored next to the first.
C20_Witness ==
    /\ resp.op = "create" /\ resp.status = 201
    /\ resp.body \in urls
    /\ \E u \in urls : /\ u # resp.body
                       /\ u.target_url = resp.body.target_url
                       /\ u.owner_id = resp.body.owner_id
                       /\ u.key # resp.body.key

-----------------------------------------------------------------------------
(* Duplicate keys at insert *)

\* C21: a create request that got past the bearer gate ends with a stored
\* URL: when its insert is rejected by a unique index because a concurrent
\* create took the same key, it retries with a new key and is not answered
\* with an internal error.
C21_DuplicateKeyRetried ==
    (resp.op = "create" /\ resp.user # 0)
    => (resp.status = 201 /\ resp.body \in urls)

-----------------------------------------------------------------------------
(* Listing *)

\* C22: GET /urls called with a user's valid token is answered 200 with
\* exactly the stored URLs that user owns, active and deactivated.
C22_ListOwned ==
    \A t \in issued :
        (/\ resp.op = "redirect" /\ resp.key = "urls"
         /\ resp.token = t.token /\ ~(t.token.exp < now))
        => /\ resp.status = 200
           /\ {resp.body} \ {NoUrl} = {u \in urls : u.owner_id = t.uid}

-----------------------------------------------------------------------------
(* Termination of create *)

\* C23: every create request that has started eventually completes, with a
\* stored URL or with an error - also when every short key is taken, where it
\* fails instead of looping.
C23_CreateCompletes ==
    \A i \in Slots : (req[i].op = "create") ~> (req[i].pc = "idle")

-----------------------------------------------------------------------------
(* The shape of secret keys *)

\* C24: the secret key of every stored URL is that URL's short key, then "_",
\* then one of the values the random suffix can take; so the short key is a
\* proper prefix of the secret key.
C24_SecretExtendsKey ==
    \A u \in urls :
        /\ \E suffix \in Suffixes : u.secret_key = u.key \o "_" \o suffix
        /\ Len(u.secret_key) > Len(u.key)
        /\ SubSeq(u.secret_key, 1, Len(u.key)) = u.key

\* C24 witness: the short key does not determine the secret key: a URL is
\* stored under a short key while a concurrent create that drew the same short
\* key holds another secret key for it.
C24_Witness ==
    \E u \in urls, j \in Slots :
        /\ req[j].op = "create" /\ req[j].pc = "commit"
        /\ req[j].key = u.key
        /\ req[j].secret_key # u.secret_key

-----------------------------------------------------------------------------
(* Repeated deactivation *)

\* C25: a deactivate request of the owner is answered 200 whether the URL is
\* active or already deactivated, and the step that answers a deactivation of
\* an already deactivated URL leaves the urls table exactly as it was: flag
\* false, clicks, keys, target and owner unchanged.
C25_DeactivateIdempotent ==
    /\ []((/\ resp.op = "deactivate" /\ resp.user # 0
            /\ \E u \in urls : /\ u.secret_key = resp.secret_key
                               /\ u.owner_id = resp.user)
           => /\ resp.status = 200
              /\ resp.detail = "URL deactivated successfully"
              /\ \A u \in urls :
                    u.secret_key = resp.secret_key => ~u.is_active)
    /\ [][\A i \in Slots :
             (/\ req[i].op = "deactivate" /\ req[i].pc = "deactivate"
              /\ req'[i] # req[i]
              /\ ~RowById(req[i].db_url.id).is_active)
             => (urls' = urls /\ resp'.status = 200)]_vars

\* C25 witness: the owner of the URL that was deactivated from the start has
\* just been answered 200 by a further deactivation of it.
C25_Witness ==
    /\ resp.op = "deactivate" /\ resp.status = 200
    /\ \E u \in urls : /\ u.secret_key = resp.secret_key
                       /\ u.owner_id = resp.user
                       /\ u.id = 2 /\ ~u.is_active

-----------------------------------------------------------------------------
(* Owner of a created URL *)

\* C26: every stored URL has an owner, and the owner is a row of the users
\* table; a create answered 201 stores as owner the id of the user that the
\* token's subject resolves to, the token carries the server's signature, and
\* that user's active flag is set.
C26_OwnerIsTokenUser ==
    /\ [](\A u \in urls :
             u.owner_id # 0 /\ \E x \in users : x.id = u.owner_id)
    /\ [][(resp'.op = "create" /\ resp'.status = 201)
           => /\ resp'.body \in urls'
              /\ resp'.token # NoToken
              /\ jwt_decode_no_exp(resp'.token)
              /\ LET x == get_user_by_username(resp'.token.sub) IN
                   /\ x \in users /\ x.is_active
                   /\ resp'.body.owner_id = x.id
                   /\ resp'.user = x.id]_vars

\* C26 witness: a create has just been answered 201 and its URL is stored for
\* the active user, while the other user, deactivated, owns an older URL.
C26_Witness ==
    /\ resp.op = "create" /\ resp.status = 201
    /\ resp.body \in urls
    /\ \E x \in users : x.is_active /\ x.id = resp.body.owner_id
                        /\ x.email = resp.token.sub
    /\ \E y \in users, u \in urls : ~y.is_active /\ u.owner_id = y.id

====
